---- MODULE Spec2Model ----
(***************************************************************************)
(* Host-side capability bridge of the Kiwi runtime: the two role dispatch  *)
(* tables (crates/wasm/src/client/implementation/specific.rs and           *)
(* crates/wasm/src/server/unused.rs), the procedural resource registry     *)
(* they drive, the message channel and the deferred execution bridge used  *)
(* by the audio capability.                                                *)
(***************************************************************************)
EXTENDS Integers, Sequences, FiniteSets, TLC

VARIABLES
    role,       \* role of this host's dispatch table (fixed at load)
    phase,      \* scheduler position inside a simulation step: "drain" | "calls"
    guard,      \* units of work currently inside a world-guarded section
    storage,    \* procedural_storage(): kind -> slot -> [gen, obj]
    matdeps,    \* material object -> the four Arc'd objects its config holds
    strong,     \* Arc strong count of every object
    released,   \* how many times an object's backing value has been dropped
    nextObj,    \* next fresh object identity
    connected,  \* whether the game_client() resource holds a client
    net,        \* requests handed to the network collaborator, in order
    localq,     \* locally targeted messages enqueued, in order
    tasks,      \* runtime.spawn'ed long-running operations
    nextTask,   \* next fresh task identity
    queue,      \* async_run queue of deferred callbacks
    running,    \* the callback currently executing (0 when none)
    audio,      \* messages received by audio_sender(), in order
    completed,  \* task ids in order of completion
    ran,        \* task ids in the order their callbacks started
    produced,   \* task id -> number of callbacks it has handed to async_run
    last,       \* the guest call that has just returned, with its result
    panicked,   \* the host thread unwound out of a handler
    window,     \* messages received by window_ctl(), in order
    logged,     \* task ids whose failure the host has logged, in order
    player,     \* whether an entity with the local user id exists
    loaded,     \* ids of the modules currently loaded
    delivered,  \* local messages dispatched so far, each with its recipients
    platform,   \* target_os the host was built for (fixed at build)
    desc,       \* object -> what the rendering collaborator was asked to build
    app,        \* the launcher: its command line, position and stages run
    move        \* the character-movement module's units and last frame

vars == <<role, phase, guard, storage, matdeps, strong, released, nextObj,
          connected, net, localq, tasks, nextTask, queue, running, audio,
          completed, ran, produced, last, panicked, window, logged, player,
          loaded, delivered, platform, desc, app, move>>

-----------------------------------------------------------------------------
(* Bounds of the model *)

NumModules == 2
MaxSlots == 2
MaxObjs == 3
MaxTasks == 2
MaxMsgs == 2

Modules == 1..NumModules
Slots == 1..MaxSlots
ObjIds == 1..MaxObjs
TaskIds == 1..MaxTasks

Roles == {"Authoritative", "Presentational"}
Kinds == {"Mesh", "Texture", "Sampler", "Material"}

-----------------------------------------------------------------------------
(* Resource handles and the procedural storage *)

Vacant == 0

Handle(k, i, g) == [kind |-> k, idx |-> i, gen |-> g]

NoHandle == Handle("None", 0, 0)

NoDeps == <<NoHandle, NoHandle, NoHandle, NoHandle>>

\* Nothing was asked of the rendering collaborator for this object.
NoDesc == [kind |-> "None"]

\* A handle whose slot was never allocated.
BogusHandle == Handle("Texture", MaxSlots, 0)

EmptyStorage == [k \in Kinds |-> [i \in Slots |-> [gen |-> 0, obj |-> Vacant]]]

\* storage.get_<kind>(handle): the object behind a handle, Vacant when the
\* handle is of another kind, stale or unknown.
StorageGet(st, k, h) ==
    IF /\ h.kind = k
       /\ h.idx \in Slots
       /\ st[k][h.idx].gen = h.gen
       /\ st[k][h.idx].obj /= Vacant
    THEN st[k][h.idx].obj
    ELSE Vacant

HasFreeSlot(st, k) == \E i \in Slots : st[k][i].obj = Vacant

FreeSlot(st, k) ==
    CHOOSE i \in Slots :
        /\ st[k][i].obj = Vacant
        /\ \A j \in Slots : st[k][j].obj = Vacant => i <= j

\* A storage that hands a reoccupied slot out under the generation it had.
StorageInsertSameGen(st, k, o) ==
    LET i == FreeSlot(st, k)
        g == IF st[k][i].gen = 0 THEN 1 ELSE st[k][i].gen
    IN  [handle |-> Handle(k, i, g),
         st |-> [st EXCEPT ![k][i] = [gen |-> g, obj |-> o]]]

\* A storage that puts every value into one fixed slot, under the handle
\* the slot already has when it is occupied.
StorageInsertOverwrite(st, k, o) ==
    LET i == CHOOSE j \in Slots : \A l \in Slots : j <= l
        g == IF st[k][i].gen = 0 THEN 1 ELSE st[k][i].gen
    IN  [handle |-> Handle(k, i, g),
         st |-> [st EXCEPT ![k][i] = [gen |-> g, obj |-> o]]]

\* storage.insert_<kind>(value): occupies a free slot under a new generation.
StorageInsert(st, k, o) ==
    LET i == FreeSlot(st, k)
        g == st[k][i].gen + 1
    IN  [handle |-> Handle(k, i, g),
         st |-> [st EXCEPT ![k][i] = [gen |-> g, obj |-> o]]]

\* storage.remove_<kind>(handle): vacates the slot the handle names, if any.
StorageRemove(st, k, h) ==
    IF StorageGet(st, k, h) = Vacant
    THEN st
    ELSE [st EXCEPT ![k][h.idx].obj = Vacant]

\* Handles the storage has ever returned, live or destroyed.
Issued(st) ==
    {h \in [kind : Kinds, idx : Slots, gen : 1..MaxObjs] :
        h.gen <= st[h.kind][h.idx].gen}

IsLive(st, h) == h.kind \in Kinds /\ StorageGet(st, h.kind, h) /= Vacant

\* Handles a guest can put into a call: every handle it was ever given (of
\* any kind, live or destroyed) and one that was never issued.
GuestHandles(st) == Issued(st) \cup {BogusHandle}

InStorage(st, o) == \E k \in Kinds, i \in Slots : st[k][i].obj = o

-----------------------------------------------------------------------------
(* The part of the state a handler can reach through the world *)

World ==
    [storage |-> storage, matdeps |-> matdeps, strong |-> strong,
     released |-> released, nextObj |-> nextObj, connected |-> connected,
     net |-> net, localq |-> localq, tasks |-> tasks, nextTask |-> nextTask,
     queue |-> queue, audio |-> audio, window |-> window, logged |-> logged,
     player |-> player, desc |-> desc]

\* Result of a handler: the value returned to the guest and the world after.
Ret(res, ret, s) == [res |-> res, ret |-> ret, s |-> s]

-----------------------------------------------------------------------------
(* Shared ownership (std::sync::Arc) *)

ArcNew(s, o) == [s EXCEPT !.strong[o] = 1]

ArcClone(s, o) == [s EXCEPT !.strong[o] = @ + 1]

\* Dropping the last reference drops the value behind it.
ArcDrop(s, o) ==
    [s EXCEPT !.strong[o] = @ - 1,
              !.released[o] = IF s.strong[o] <= 1 THEN @ + 1 ELSE @]

ArcDrop4(s, d) == ArcDrop(ArcDrop(ArcDrop(ArcDrop(s, d[1]), d[2]), d[3]), d[4])

-----------------------------------------------------------------------------
(* Guest calls *)

BaseCall(op) ==
    [op |-> op, h |-> NoHandle, deps |-> NoDeps, valid |-> TRUE,
     target |-> "None", dest |-> 0, name |-> "", data |-> 0,
     url |-> "", uid |-> 0, ent |-> 0, format |-> "Rgba8Unorm",
     addr |-> <<"ClampToEdge", "ClampToEdge", "ClampToEdge">>,
     filter |-> <<"Nearest", "Nearest", "Nearest">>]

NoCall == BaseCall("none")

\* Nothing has just returned: the guest is running or the host is between calls.
NoLast == [m |-> 0, call |-> NoCall, res |-> "none", ret |-> NoHandle]

-----------------------------------------------------------------------------
(* client_mesh, client_texture, client_sampler, client_material *)

\* The value stored under a fresh object identity, registered in the arena
\* of kind k; the handle the storage returns goes back to the guest.
InsertNew(s, k) ==
    LET o   == s.nextObj
        ins == StorageInsert(s.storage, k, o)
    IN  Ret("Ok", ins.handle,
            [ArcNew(s, o) EXCEPT !.storage = ins.st, !.nextObj = o + 1])

\* remove_<kind> takes the value out of the arena; the handler discards it.
RemoveAndDrop(s, k, h) ==
    LET o == StorageGet(s.storage, k, h)
    IN  IF o = Vacant
        THEN s
        ELSE LET s1 == [ArcDrop(s, o) EXCEPT !.storage = StorageRemove(s.storage, k, h)]
             IN  IF k = "Material"
                 THEN [ArcDrop4(s1, s.matdeps[o]) EXCEPT !.matdeps[o] = <<>>]
                 ELSE s1

\* A mesh create that registers the mesh before it validates the descriptor.
MeshCreateInsertFirst(s, c) ==
    IF ~c.valid
    THEN Ret("InvalidArgument", NoHandle, InsertNew(s, "Mesh").s)
    ELSE InsertNew(s, "Mesh")

\* MeshBuilder::build()? fails on a malformed descriptor before the storage
\* is touched.
MeshCreate(s, c) ==
    IF ~c.valid
    THEN Ret("InvalidArgument", NoHandle, s)
    ELSE InsertNew(s, "Mesh")

MeshDestroy(s, c) == Ret("Ok", NoHandle, RemoveAndDrop(s, "Mesh", c.h))

\* Values of the rendering collaborator's enumerations.
Wgpu(n) == <<"wgpu", n>>

\* wit::client_texture::Format
WitFormats ==
    {"R8Unorm", "R8Snorm", "R8Uint", "R8Sint", "R16Uint", "R16Sint",
     "R16Unorm", "R16Snorm", "R16Float", "Rg8Unorm", "Rg8Snorm", "Rg8Uint",
     "Rg8Sint", "R32Uint", "R32Sint", "R32Float", "Rg16Uint", "Rg16Sint",
     "Rg16Unorm", "Rg16Snorm", "Rg16Float", "Rgba8Unorm", "Rgba8UnormSrgb",
     "Rgba8Snorm", "Rgba8Uint", "Rgba8Sint", "Bgra8Unorm", "Bgra8UnormSrgb",
     "Rgb9e5Ufloat", "Rgb10a2Unorm", "Rg11b10Float", "Rg32Uint", "Rg32Sint",
     "Rg32Float", "Rgba16Uint", "Rgba16Sint", "Rgba16Unorm", "Rgba16Snorm",
     "Rgba16Float", "Rgba32Uint", "Rgba32Sint", "Rgba32Float"}

\* A format match whose sRGB arm yields the linear format.
TextureFormatFromWitSrgbMerged(f) ==
    CASE f = "R8Unorm" -> Wgpu("R8Unorm")
      [] f = "R8Snorm" -> Wgpu("R8Snorm")
      [] f = "R8Uint" -> Wgpu("R8Uint")
      [] f = "R8Sint" -> Wgpu("R8Sint")
      [] f = "R16Uint" -> Wgpu("R16Uint")
      [] f = "R16Sint" -> Wgpu("R16Sint")
      [] f = "R16Unorm" -> Wgpu("R16Unorm")
      [] f = "R16Snorm" -> Wgpu("R16Snorm")
      [] f = "R16Float" -> Wgpu("R16Float")
      [] f = "Rg8Unorm" -> Wgpu("Rg8Unorm")
      [] f = "Rg8Snorm" -> Wgpu("Rg8Snorm")
      [] f = "Rg8Uint" -> Wgpu("Rg8Uint")
      [] f = "Rg8Sint" -> Wgpu("Rg8Sint")
      [] f = "R32Uint" -> Wgpu("R32Uint")
      [] f = "R32Sint" -> Wgpu("R32Sint")
      [] f = "R32Float" -> Wgpu("R32Float")
      [] f = "Rg16Uint" -> Wgpu("Rg16Uint")
      [] f = "Rg16Sint" -> Wgpu("Rg16Sint")
      [] f = "Rg16Unorm" -> Wgpu("Rg16Unorm")
      [] f = "Rg16Snorm" -> Wgpu("Rg16Snorm")
      [] f = "Rg16Float" -> Wgpu("Rg16Float")
      [] f = "Rgba8Unorm" -> Wgpu("Rgba8Unorm")
      [] f = "Rgba8UnormSrgb" -> Wgpu("Rgba8Unorm")
      [] f = "Rgba8Snorm" -> Wgpu("Rgba8Snorm")
      [] f = "Rgba8Uint" -> Wgpu("Rgba8Uint")
      [] f = "Rgba8Sint" -> Wgpu("Rgba8Sint")
      [] f = "Bgra8Unorm" -> Wgpu("Bgra8Unorm")
      [] f = "Bgra8UnormSrgb" -> Wgpu("Bgra8UnormSrgb")
      [] f = "Rgb9e5Ufloat" -> Wgpu("Rgb9e5Ufloat")
      [] f = "Rgb10a2Unorm" -> Wgpu("Rgb10a2Unorm")
      [] f = "Rg11b10Float" -> Wgpu("Rg11b10Float")
      [] f = "Rg32Uint" -> Wgpu("Rg32Uint")
      [] f = "Rg32Sint" -> Wgpu("Rg32Sint")
      [] f = "Rg32Float" -> Wgpu("Rg32Float")
      [] f = "Rgba16Uint" -> Wgpu("Rgba16Uint")
      [] f = "Rgba16Sint" -> Wgpu("Rgba16Sint")
      [] f = "Rgba16Unorm" -> Wgpu("Rgba16Unorm")
      [] f = "Rgba16Snorm" -> Wgpu("Rgba16Snorm")
      [] f = "Rgba16Float" -> Wgpu("Rgba16Float")
      [] f = "Rgba32Uint" -> Wgpu("Rgba32Uint")
      [] f = "Rgba32Sint" -> Wgpu("Rgba32Sint")
      [] f = "Rgba32Float" -> Wgpu("Rgba32Float")

\* let format = match desc.format { .. }
TextureFormatFromWit(f) ==
    CASE f = "R8Unorm" -> Wgpu("R8Unorm")
      [] f = "R8Snorm" -> Wgpu("R8Snorm")
      [] f = "R8Uint" -> Wgpu("R8Uint")
      [] f = "R8Sint" -> Wgpu("R8Sint")
      [] f = "R16Uint" -> Wgpu("R16Uint")
      [] f = "R16Sint" -> Wgpu("R16Sint")
      [] f = "R16Unorm" -> Wgpu("R16Unorm")
      [] f = "R16Snorm" -> Wgpu("R16Snorm")
      [] f = "R16Float" -> Wgpu("R16Float")
      [] f = "Rg8Unorm" -> Wgpu("Rg8Unorm")
      [] f = "Rg8Snorm" -> Wgpu("Rg8Snorm")
      [] f = "Rg8Uint" -> Wgpu("Rg8Uint")
      [] f = "Rg8Sint" -> Wgpu("Rg8Sint")
      [] f = "R32Uint" -> Wgpu("R32Uint")
      [] f = "R32Sint" -> Wgpu("R32Sint")
      [] f = "R32Float" -> Wgpu("R32Float")
      [] f = "Rg16Uint" -> Wgpu("Rg16Uint")
      [] f = "Rg16Sint" -> Wgpu("Rg16Sint")
      [] f = "Rg16Unorm" -> Wgpu("Rg16Unorm")
      [] f = "Rg16Snorm" -> Wgpu("Rg16Snorm")
      [] f = "Rg16Float" -> Wgpu("Rg16Float")
      [] f = "Rgba8Unorm" -> Wgpu("Rgba8Unorm")
      [] f = "Rgba8UnormSrgb" -> Wgpu("Rgba8UnormSrgb")
      [] f = "Rgba8Snorm" -> Wgpu("Rgba8Snorm")
      [] f = "Rgba8Uint" -> Wgpu("Rgba8Uint")
      [] f = "Rgba8Sint" -> Wgpu("Rgba8Sint")
      [] f = "Bgra8Unorm" -> Wgpu("Bgra8Unorm")
      [] f = "Bgra8UnormSrgb" -> Wgpu("Bgra8UnormSrgb")
      [] f = "Rgb9e5Ufloat" -> Wgpu("Rgb9e5Ufloat")
      [] f = "Rgb10a2Unorm" -> Wgpu("Rgb10a2Unorm")
      [] f = "Rg11b10Float" -> Wgpu("Rg11b10Float")
      [] f = "Rg32Uint" -> Wgpu("Rg32Uint")
      [] f = "Rg32Sint" -> Wgpu("Rg32Sint")
      [] f = "Rg32Float" -> Wgpu("Rg32Float")
      [] f = "Rgba16Uint" -> Wgpu("Rgba16Uint")
      [] f = "Rgba16Sint" -> Wgpu("Rgba16Sint")
      [] f = "Rgba16Unorm" -> Wgpu("Rgba16Unorm")
      [] f = "Rgba16Snorm" -> Wgpu("Rgba16Snorm")
      [] f = "Rgba16Float" -> Wgpu("Rgba16Float")
      [] f = "Rgba32Uint" -> Wgpu("Rgba32Uint")
      [] f = "Rgba32Sint" -> Wgpu("Rgba32Sint")
      [] f = "Rgba32Float" -> Wgpu("Rgba32Float")

\* wit::client_sampler::AddressMode
AddressModes == {"ClampToEdge", "Repeat", "MirrorRepeat"}

\* wit::client_sampler::FilterMode
FilterModes == {"Nearest", "Linear"}

AddressModeFromWit(a) ==
    CASE a = "ClampToEdge" -> Wgpu("ClampToEdge")
      [] a = "Repeat" -> Wgpu("Repeat")
      [] a = "MirrorRepeat" -> Wgpu("MirrorRepeat")

FilterModeFromWit(f) ==
    CASE f = "Nearest" -> Wgpu("Nearest")
      [] f = "Linear" -> Wgpu("Linear")

\* Texture::new_with_data(gpu, &wgpu::TextureDescriptor { format, .. }, ..)
TextureCreate2d(s, c) ==
    LET r == InsertNew(s, "Texture")
    IN  Ret(r.res, r.ret,
            [r.s EXCEPT !.desc[s.nextObj] =
                [kind |-> "Texture", format |-> TextureFormatFromWit(c.format)]])

TextureDestroy(s, c) == Ret("Ok", NoHandle, RemoveAndDrop(s, "Texture", c.h))

\* gpu.device.create_sampler(&wgpu::SamplerDescriptor { .. })
SamplerCreate(s, c) ==
    LET r == InsertNew(s, "Sampler")
    IN  Ret(r.res, r.ret,
            [r.s EXCEPT !.desc[s.nextObj] =
                [kind |-> "Sampler",
                 address |-> [i \in 1..3 |-> AddressModeFromWit(c.addr[i])],
                 filter |-> [i \in 1..3 |-> FilterModeFromWit(c.filter[i])]]])

SamplerDestroy(s, c) == Ret("Ok", NoHandle, RemoveAndDrop(s, "Sampler", c.h))

\* A material that keeps the looked-up references without cloning the Arcs.
MaterialCreateNoClone(s, c) ==
    LET b  == StorageGet(s.storage, "Texture", c.deps[1])
        n  == StorageGet(s.storage, "Texture", c.deps[2])
        mr == StorageGet(s.storage, "Texture", c.deps[3])
        sm == StorageGet(s.storage, "Sampler", c.deps[4])
    IN  IF Vacant \in {b, n, mr, sm}
        THEN Ret("Panic", NoHandle, s)
        ELSE LET r == InsertNew(s, "Material")
             IN  Ret(r.res, r.ret,
                     [r.s EXCEPT !.matdeps[s.nextObj] = <<b, n, mr, sm>>])

\* The four dependency lookups return plain references: a failed lookup
\* cannot be turned into an error result and unwinds out of the handler,
\* dropping the clones taken so far, before insert_material is reached.
MaterialCreate(s, c) ==
    LET b  == StorageGet(s.storage, "Texture", c.deps[1])
        n  == StorageGet(s.storage, "Texture", c.deps[2])
        mr == StorageGet(s.storage, "Texture", c.deps[3])
        sm == StorageGet(s.storage, "Sampler", c.deps[4])
    IN  IF Vacant \in {b, n, mr, sm}
        THEN Ret("Panic", NoHandle, s)
        ELSE LET s1 == ArcClone(ArcClone(ArcClone(ArcClone(s, b), n), mr), sm)
                 r  == InsertNew(s1, "Material")
             IN  Ret(r.res, r.ret,
                     [r.s EXCEPT !.matdeps[s.nextObj] = <<b, n, mr, sm>>])

\* A material destroy that also takes the material's base colour texture out
\* of the registry.
MaterialDestroyCascade(s, c) ==
    LET o  == StorageGet(s.storage, "Material", c.h)
        s1 == RemoveAndDrop(s, "Material", c.h)
    IN  IF o = Vacant
        THEN Ret("Ok", NoHandle, s1)
        ELSE LET hs == {h \in Issued(s.storage) :
                           StorageGet(s.storage, "Texture", h) = s.matdeps[o][1]}
             IN  IF hs = {}
                 THEN Ret("Ok", NoHandle, s1)
                 ELSE Ret("Ok", NoHandle, RemoveAndDrop(s1, "Texture", CHOOSE h \in hs : TRUE))

MaterialDestroy(s, c) == Ret("Ok", NoHandle, RemoveAndDrop(s, "Material", c.h))

CreateKind(op) ==
    CASE op = "client_mesh.create" -> "Mesh"
      [] op = "client_texture.create2d" -> "Texture"
      [] op = "client_sampler.create" -> "Sampler"
      [] op = "client_material.create" -> "Material"
      [] OTHER -> "None"

-----------------------------------------------------------------------------
(* client_message *)

Targets == {"ServerUnreliable", "ServerReliable", "LocalBroadcast", "Local"}
Names == {"bonk"}
Payloads == {1, 2}

\* message::send_networked: one request to the network collaborator.
SendNetworked(s, module_id, name, data, reliable) ==
    Ret("Ok", NoHandle,
        [s EXCEPT !.net = Append(@, [reliable |-> reliable, module |-> module_id,
                                     name |-> name, data |-> data])])

\* message::send_local: one locally targeted message (target 0: broadcast).
SendLocal(s, module_id, target, name, data) ==
    Ret("Ok", NoHandle,
        [s EXCEPT !.localq = Append(@, [source |-> module_id, target |-> target,
                                        name |-> name, data |-> data])])

\* A send that asks for an unreliable delivery whatever the target.
SendReliableFlagDropped(s, m, c) ==
    CASE c.target \in {"ServerUnreliable", "ServerReliable"} ->
            IF ~s.connected
            THEN Ret("NoGameClient", NoHandle, s)
            ELSE SendNetworked(s, m, c.name, c.data, FALSE)
      [] c.target = "LocalBroadcast" -> SendLocal(s, m, 0, c.name, c.data)
      [] c.target = "Local" -> SendLocal(s, m, c.dest, c.name, c.data)

\* A send that does not look for the game client.
SendWithoutClientCheck(s, m, c) ==
    CASE c.target \in {"ServerUnreliable", "ServerReliable"} ->
            SendNetworked(s, m, c.name, c.data, c.target = "ServerReliable")
      [] c.target = "LocalBroadcast" -> SendLocal(s, m, 0, c.name, c.data)
      [] c.target = "Local" -> SendLocal(s, m, c.dest, c.name, c.data)

\* A send whose broadcast is addressed to the sender itself.
SendBroadcastToSelf(s, m, c) ==
    CASE c.target \in {"ServerUnreliable", "ServerReliable"} ->
            IF ~s.connected
            THEN Ret("NoGameClient", NoHandle, s)
            ELSE SendNetworked(s, m, c.name, c.data, c.target = "ServerReliable")
      [] c.target = "LocalBroadcast" -> SendLocal(s, m, m, c.name, c.data)
      [] c.target = "Local" -> SendLocal(s, m, c.dest, c.name, c.data)

\* A send that wants a game client for the local targets too.
SendLocalNeedsClient(s, m, c) ==
    IF ~s.connected
    THEN Ret("NoGameClient", NoHandle, s)
    ELSE CASE c.target \in {"ServerUnreliable", "ServerReliable"} ->
                SendNetworked(s, m, c.name, c.data, c.target = "ServerReliable")
           [] c.target = "LocalBroadcast" -> SendLocal(s, m, 0, c.name, c.data)
           [] c.target = "Local" -> SendLocal(s, m, c.dest, c.name, c.data)

\* A send that takes the origin of a directed message from its addressee.
SendSpoofableOrigin(s, m, c) ==
    CASE c.target \in {"ServerUnreliable", "ServerReliable"} ->
            IF ~s.connected
            THEN Ret("NoGameClient", NoHandle, s)
            ELSE SendNetworked(s, m, c.name, c.data, c.target = "ServerReliable")
      [] c.target = "LocalBroadcast" -> SendLocal(s, m, 0, c.name, c.data)
      [] c.target = "Local" -> SendLocal(s, c.dest, c.dest, c.name, c.data)

Send(s, m, c) ==
    CASE c.target \in {"ServerUnreliable", "ServerReliable"} ->
            IF ~s.connected
            THEN Ret("NoGameClient", NoHandle, s)
            ELSE SendNetworked(s, m, c.name, c.data, c.target = "ServerReliable")
      [] c.target = "LocalBroadcast" -> SendLocal(s, m, 0, c.name, c.data)
      [] c.target = "Local" -> SendLocal(s, m, c.dest, c.name, c.data)

-----------------------------------------------------------------------------
(* client_input *)

InputGet(s, c) == Ret("Ok", NoHandle, s)

InputGetPrevious(s, c) == Ret("Ok", NoHandle, s)

\* window_ctl().send(msg): one message to the window.
WindowSend(s, msg, arg) ==
    Ret("Ok", NoHandle, [s EXCEPT !.window = Append(@, [msg |-> msg, arg |-> arg])])

CursorIcons == {"Default", "Hand"}

SetCursor(s, c) == WindowSend(s, "SetCursorIcon", c.name)

SetCursorVisible(s, c) == WindowSend(s, "ShowCursor", c.valid)

Platforms == {"windows", "linux", "macos", "other"}

\* A grab mode that confines the cursor on every platform.
GrabModeConfinedEverywhere(lock, os) == IF ~lock THEN "None" ELSE "Confined"

\* The grab mode chosen for a lock request; "Bail" where the build has none.
GrabMode(lock, os) ==
    IF ~lock THEN "None"
    ELSE IF os \in {"windows", "linux"} THEN "Confined"
    ELSE IF os = "macos" THEN "Locked"
    ELSE "Bail"

SetCursorLock(s, os, c) ==
    IF GrabMode(c.valid, os) = "Bail"
    THEN Ret("UnsupportedPlatform", NoHandle, s)
    ELSE WindowSend(s, "GrabCursor", GrabMode(c.valid, os))

-----------------------------------------------------------------------------
(* client_player, client_camera, client_window *)

\* get_by_user_id(..).transpose().unwrap(): without a player entity for the
\* local user id the unwrap unwinds out of the handler.
GetLocal(s, c) ==
    IF s.player THEN Ret("Ok", NoHandle, s) ELSE Ret("Panic", NoHandle, s)

\* Entities that carry the camera components.
IsCamera(e) == e = 1

\* clip_space_ray(world, camera, ..)? / world_to_clip_space(world, camera, ..)?
CameraRead(s, c) ==
    IF IsCamera(c.ent) THEN Ret("Ok", NoHandle, s) ELSE Ret("EcsError", NoHandle, s)

ClipSpaceRay(s, c) == CameraRead(s, c)

ScreenToClipSpace(s, c) == Ret("Ok", NoHandle, s)

ScreenToWorldDirection(s, c) == CameraRead(s, c)

WorldToScreen(s, c) == CameraRead(s, c)

SetFullscreen(s, c) == WindowSend(s, "SetFullscreen", c.valid)

-----------------------------------------------------------------------------
(* client_audio and the deferred execution bridge *)

Urls == {"bonk.ogg"}
Uids == {1}

NoTask == [st |-> "none", kind |-> "none", m |-> 0, url |-> "", uid |-> 0]

NoCb == [task |-> 0, kind |-> "none", outcome |-> "none", url |-> "", uid |-> 0]

\* runtime.spawn(async move { .. }): the future starts on the runtime's pool.
Spawn(s, kind, m, url, uid) ==
    [s EXCEPT !.tasks[s.nextTask] =
                  [st |-> "running", kind |-> kind, m |-> m, url |-> url, uid |-> uid],
              !.nextTask = @ + 1]

\* AbsAssetUrl::parse(url)? rejects a bad url; peek only looks into the cache.
Load(s, c) ==
    IF ~c.valid
    THEN Ret("InvalidArgument", NoHandle, s)
    ELSE Ret("Ok", NoHandle, s)

\* A play that waits for the download and sends the track before returning.
PlaySync(s, m, c) ==
    IF ~c.valid
    THEN Ret("InvalidArgument", NoHandle, s)
    ELSE Ret("Ok", NoHandle,
             [s EXCEPT !.audio = Append(@, [msg |-> "Track", url |-> c.url, uid |-> c.uid])])

\* AbsAssetUrl::parse(url)?.to_download_url(..)? rejects a bad url before
\* anything is spawned.
Play(s, m, c) ==
    IF ~c.valid
    THEN Ret("InvalidArgument", NoHandle, s)
    ELSE Ret("Ok", NoHandle, Spawn(s, "play", m, c.url, c.uid))

Stop(s, m, c) ==
    IF ~c.valid
    THEN Ret("InvalidArgument", NoHandle, s)
    ELSE Ret("Ok", NoHandle, Spawn(s, "stop", m, c.url, 0))

SetVolume(s, m, c) ==
    IF ~c.valid
    THEN Ret("InvalidArgument", NoHandle, s)
    ELSE Ret("Ok", NoHandle, Spawn(s, "set_volume", m, c.url, 0))

StopById(s, m, c) == Ret("Ok", NoHandle, Spawn(s, "stop_by_id", m, "", c.uid))

\* async_run.run(closure): the closure joins the back of the queue.
AsyncRun(q, cb) == Append(q, cb)

\* What the track download can report: only play awaits one.
Outcomes(kind) == IF kind = "play" THEN {"Ok", "Err"} ELSE {"Ok"}

\* A future that reports only a successful download.
TaskRunDropErr(q, t, task, outcome) ==
    [queue |-> IF outcome = "Err" THEN q
               ELSE AsyncRun(q, [task |-> t, kind |-> task.kind, outcome |-> outcome,
                                 url |-> task.url, uid |-> task.uid]),
     inWorld |-> {}]

\* A future whose closure jumps the queue.
TaskRunPrepend(q, t, task, outcome) ==
    [queue |-> <<[task |-> t, kind |-> task.kind, outcome |-> outcome,
                  url |-> task.url, uid |-> task.uid]>> \o q,
     inWorld |-> {}]

\* A future that reaches into the world itself, from the pool.
TaskRunDirect(q, t, task, outcome) ==
    [queue |-> q, inWorld |-> {<<"task", t>>}]

\* A future whose closure is queued by the order in which the operations
\* were issued.
TaskRunIssueOrder(q, t, task, outcome) ==
    [queue |-> SelectSeq(q, LAMBDA cb : cb.task < t)
               \o <<[task |-> t, kind |-> task.kind, outcome |-> outcome,
                     url |-> task.url, uid |-> task.uid]>>
               \o SelectSeq(q, LAMBDA cb : cb.task > t),
     inWorld |-> {}]

\* A future that takes the world for itself before it hands its closure over.
TaskRunTouchThenRun(q, t, task, outcome) ==
    [queue |-> AsyncRun(q, [task |-> t, kind |-> task.kind, outcome |-> outcome,
                            url |-> task.url, uid |-> task.uid]),
     inWorld |-> {<<"task", t>>}]

\* The spawned future, run on the pool: it works on the values cloned out
\* of the world during the call and ends by handing one closure to
\* async_run; inWorld is the set of world accesses it makes itself.
TaskRun(q, t, task, outcome) ==
    [queue |-> AsyncRun(q, [task |-> t, kind |-> task.kind, outcome |-> outcome,
                            url |-> task.url, uid |-> task.uid]),
     inWorld |-> {}]

\* A closure that sends the track whatever the download reported.
CallbackBodyTrackOnErr(s, cb) ==
    CASE cb.kind = "play" ->
            [s EXCEPT !.audio = Append(@, [msg |-> "Track", url |-> cb.url, uid |-> cb.uid])]
      [] cb.kind = "stop" ->
            [s EXCEPT !.audio = Append(@, [msg |-> "Stop", url |-> cb.url, uid |-> 0])]
      [] cb.kind = "set_volume" ->
            [s EXCEPT !.audio = Append(@, [msg |-> "UpdateVolume", url |-> cb.url, uid |-> 0])]
      [] cb.kind = "stop_by_id" ->
            [s EXCEPT !.audio = Append(@, [msg |-> "StopById", url |-> "", uid |-> cb.uid])]

\* The closure handed to async_run, run with the world.
CallbackBody(s, cb) ==
    CASE cb.kind = "play" ->
            IF cb.outcome = "Ok"
            THEN [s EXCEPT !.audio = Append(@, [msg |-> "Track", url |-> cb.url, uid |-> cb.uid])]
            ELSE [s EXCEPT !.logged = Append(@, cb.task)]
      [] cb.kind = "stop" ->
            [s EXCEPT !.audio = Append(@, [msg |-> "Stop", url |-> cb.url, uid |-> 0])]
      [] cb.kind = "set_volume" ->
            [s EXCEPT !.audio = Append(@, [msg |-> "UpdateVolume", url |-> cb.url, uid |-> 0])]
      [] cb.kind = "stop_by_id" ->
            [s EXCEPT !.audio = Append(@, [msg |-> "StopById", url |-> "", uid |-> cb.uid])]

-----------------------------------------------------------------------------
(* Capabilities the role does not serve *)

\* shared::implementation::unsupported()
Unsupported(s) == Ret("Unsupported", NoHandle, s)

\* server/unused.rs: every client capability on the authoritative role.
ServerUnusedOps ==
    {"client_message.send", "client_player.get_local", "client_input.get",
     "client_input.get_previous", "camera.screen_ray"}

\* A server table that serves locally targeted sends.
ServerUnusedLocalSend(s, m, c) ==
    IF c.op = "client_message.send" /\ c.target \in {"LocalBroadcast", "Local"}
    THEN SendLocal(s, m, c.dest, c.name, c.data)
    ELSE Unsupported(s)

\* A send stub that enqueues the message before it reports Unsupported.
ServerUnusedLeaky(s, m, c) ==
    IF c.op = "client_message.send"
    THEN Unsupported(SendLocal(s, m, c.dest, c.name, c.data).s)
    ELSE Unsupported(s)

ServerUnused(s, m, c) ==
    CASE c.op = "client_message.send" -> Unsupported(s)
      [] c.op = "client_player.get_local" -> Unsupported(s)
      [] c.op = "client_input.get" -> Unsupported(s)
      [] c.op = "client_input.get_previous" -> Unsupported(s)
      [] c.op = "camera.screen_ray" -> Unsupported(s)

\* The server-only capabilities on the presentational role.
ClientUnusedOps == {"physics.move_character"}

ClientUnused(s, m, c) == Unsupported(s)

-----------------------------------------------------------------------------
(* The two dispatch tables *)

CameraOps ==
    {"client_camera.clip_space_ray", "client_camera.screen_to_clip_space",
     "client_camera.screen_to_world_direction", "client_camera.world_to_screen"}

ClientSpecificOps ==
    {"client_message.send", "client_player.get_local",
     "client_input.get", "client_input.get_previous",
     "client_input.set_cursor", "client_input.set_cursor_visible",
     "client_input.set_cursor_lock",
     "client_camera.clip_space_ray", "client_camera.screen_to_clip_space",
     "client_camera.screen_to_world_direction", "client_camera.world_to_screen",
     "client_audio.load",
     "client_audio.play", "client_audio.stop", "client_audio.set_volume",
     "client_audio.stop_by_id",
     "client_window.set_fullscreen",
     "client_mesh.create", "client_mesh.destroy",
     "client_texture.create2d", "client_texture.destroy",
     "client_sampler.create", "client_sampler.destroy",
     "client_material.create", "client_material.destroy"}

ClientSpecific(s, os, m, c) ==
    CASE c.op = "client_message.send" -> Send(s, m, c)
      [] c.op = "client_player.get_local" -> GetLocal(s, c)
      [] c.op = "client_input.get" -> InputGet(s, c)
      [] c.op = "client_input.get_previous" -> InputGetPrevious(s, c)
      [] c.op = "client_input.set_cursor" -> SetCursor(s, c)
      [] c.op = "client_input.set_cursor_visible" -> SetCursorVisible(s, c)
      [] c.op = "client_input.set_cursor_lock" -> SetCursorLock(s, os, c)
      [] c.op = "client_camera.clip_space_ray" -> ClipSpaceRay(s, c)
      [] c.op = "client_camera.screen_to_clip_space" -> ScreenToClipSpace(s, c)
      [] c.op = "client_camera.screen_to_world_direction" -> ScreenToWorldDirection(s, c)
      [] c.op = "client_camera.world_to_screen" -> WorldToScreen(s, c)
      [] c.op = "client_audio.load" -> Load(s, c)
      [] c.op = "client_window.set_fullscreen" -> SetFullscreen(s, c)
      [] c.op = "client_audio.play" -> Play(s, m, c)
      [] c.op = "client_audio.stop" -> Stop(s, m, c)
      [] c.op = "client_audio.set_volume" -> SetVolume(s, m, c)
      [] c.op = "client_audio.stop_by_id" -> StopById(s, m, c)
      [] c.op = "client_mesh.create" -> MeshCreate(s, c)
      [] c.op = "client_mesh.destroy" -> MeshDestroy(s, c)
      [] c.op = "client_texture.create2d" -> TextureCreate2d(s, c)
      [] c.op = "client_texture.destroy" -> TextureDestroy(s, c)
      [] c.op = "client_sampler.create" -> SamplerCreate(s, c)
      [] c.op = "client_sampler.destroy" -> SamplerDestroy(s, c)
      [] c.op = "client_material.create" -> MaterialCreate(s, c)
      [] c.op = "client_material.destroy" -> MaterialDestroy(s, c)

\* Operations a guest of the given role can call at all.
TableOps(r) ==
    IF r = "Authoritative" THEN ServerUnusedOps
    ELSE ClientSpecificOps \cup ClientUnusedOps

\* Operations the role's table implements (rather than stubs).
Implemented(r) == IF r = "Authoritative" THEN {} ELSE ClientSpecificOps

Dispatch(r, os, s, m, c) ==
    IF r = "Authoritative" THEN ServerUnused(s, m, c)
    ELSE IF c.op \in ClientSpecificOps THEN ClientSpecific(s, os, m, c)
    ELSE ClientUnused(s, m, c)

-----------------------------------------------------------------------------
(* What guests can ask for *)

DestroyOps ==
    {"client_mesh.destroy", "client_texture.destroy", "client_sampler.destroy",
     "client_material.destroy"}

AudioOps ==
    {"client_audio.play", "client_audio.stop", "client_audio.set_volume",
     "client_audio.stop_by_id"}

WindowOps ==
    {"client_input.set_cursor", "client_input.set_cursor_visible",
     "client_input.set_cursor_lock", "client_window.set_fullscreen"}

MeshCreateCall(v) == [BaseCall("client_mesh.create") EXCEPT !.valid = v]

DestroyCall(op, h) == [BaseCall(op) EXCEPT !.h = h]

MaterialCreateCall(b, n, mr, sm) ==
    [BaseCall("client_material.create") EXCEPT !.deps = <<b, n, mr, sm>>]

\* Module ids a local-directed message can name: the loaded ones and one
\* that is not loaded.
Dests == 1..(NumModules + 1)

SendCall(t, x, n, d) ==
    [BaseCall("client_message.send") EXCEPT !.target = t, !.name = n, !.data = d,
                                            !.dest = IF t = "Local" THEN x ELSE 0]

UrlCall(op, v, u, i) == [BaseCall(op) EXCEPT !.valid = v, !.url = u, !.uid = i]

StopByIdCall(i) == [BaseCall("client_audio.stop_by_id") EXCEPT !.uid = i]

Entities == {1, 2}

EntityCall(op, e) == [BaseCall(op) EXCEPT !.ent = e]

TextureCall(f) == [BaseCall("client_texture.create2d") EXCEPT !.format = f]

\* address_mode_u/v/w and mag/min/mipmap filter of the descriptor.
SamplerCall(a, f) == [BaseCall("client_sampler.create") EXCEPT !.addr = a, !.filter = f]

\* The bounds of the model: arenas, object identities, queues and task
\* identities are finite here.
CallEnabled(c) ==
    /\ CreateKind(c.op) /= "None" =>
          nextObj <= MaxObjs /\ HasFreeSlot(storage, CreateKind(c.op))
    /\ c.op = "client_message.send" =>
          Len(net) + Len(localq) + Len(delivered) < MaxMsgs
    /\ c.op \in WindowOps => Len(window) < MaxMsgs
    /\ c.op \in AudioOps => nextTask <= MaxTasks

-----------------------------------------------------------------------------
(* Actions *)

SetWorld(s) ==
    /\ storage' = s.storage
    /\ matdeps' = s.matdeps
    /\ strong' = s.strong
    /\ released' = s.released
    /\ nextObj' = s.nextObj
    /\ connected' = s.connected
    /\ net' = s.net
    /\ localq' = s.localq
    /\ tasks' = s.tasks
    /\ nextTask' = s.nextTask
    /\ queue' = s.queue
    /\ audio' = s.audio
    /\ window' = s.window
    /\ logged' = s.logged
    /\ player' = s.player
    /\ desc' = s.desc

worldVars == <<storage, matdeps, strong, released, nextObj, connected, net,
               localq, tasks, nextTask, queue, audio, window, logged, player,
               desc>>

\* What the module loader and the local dispatcher keep.
hostVars == <<loaded, delivered>>

\* A new simulation step starts with the drain of the deferred callbacks.
StepBegin ==
    /\ ~panicked
    /\ phase = "calls"
    /\ guard = {}
    /\ phase' = "drain"
    /\ last' = NoLast
    /\ UNCHANGED <<role, platform, app, move, guard, worldVars, hostVars, running, completed, ran,
                   produced, panicked>>

\* The drain takes the oldest queued callback and runs it with the world.
CallbackBegin ==
    /\ ~panicked
    /\ phase = "drain"
    /\ guard = {}
    /\ queue /= <<>>
    /\ running' = Head(queue)
    /\ queue' = Tail(queue)
    /\ guard' = guard \cup {<<"cb", Head(queue).task>>}
    /\ ran' = Append(ran, Head(queue).task)
    /\ UNCHANGED <<role, platform, app, move, phase, storage, matdeps, strong, released, nextObj,
                   connected, net, localq, tasks, nextTask, audio, desc, window,
                   logged, player, hostVars, completed, produced, last,
                   panicked>>

CallbackEnd ==
    /\ ~panicked
    /\ running /= NoCb
    /\ SetWorld(CallbackBody(World, running))
    /\ running' = NoCb
    /\ guard' = guard \ {<<"cb", running.task>>}
    /\ UNCHANGED <<role, platform, app, move, phase, hostVars, completed, ran, produced, last,
                   panicked>>

\* The queue is empty: the step's batch of guest calls follows.
DrainEnd ==
    /\ ~panicked
    /\ phase = "drain"
    /\ guard = {}
    /\ queue = <<>>
    /\ phase' = "calls"
    /\ UNCHANGED <<role, platform, app, move, guard, worldVars, hostVars, running, completed, ran,
                   produced, last, panicked>>

\* A guest call enters the host and takes the world.
CallBegin(m) ==
    /\ ~panicked
    /\ phase = "calls"
    /\ guard = {}
    /\ m \in loaded
    /\ guard' = guard \cup {<<"call", m>>}
    /\ last' = NoLast
    /\ UNCHANGED <<role, platform, app, move, phase, worldVars, hostVars, running, completed, ran,
                   produced, panicked>>

\* The handler runs to its return (or unwinds) and the world is given back.
CallEnd(m, c) ==
    /\ ~panicked
    /\ <<"call", m>> \in guard
    /\ c.op \in TableOps(role)
    /\ CallEnabled(c)
    /\ LET r == Dispatch(role, platform, World, m, c)
       IN  /\ SetWorld(r.s)
           /\ last' = [m |-> m, call |-> c, res |-> r.res, ret |-> r.ret]
           /\ panicked' = (r.res = "Panic")
    /\ guard' = guard \ {<<"call", m>>}
    /\ UNCHANGED <<role, platform, app, move, phase, hostVars, running, completed, ran, produced>>

\* A spawned operation finishes on the pool, at any moment.
TaskFinish(t, outcome) ==
    /\ ~panicked
    /\ tasks[t].st = "running"
    /\ outcome \in Outcomes(tasks[t].kind)
    /\ LET r == TaskRun(queue, t, tasks[t], outcome)
       IN  /\ queue' = r.queue
           /\ guard' = guard \cup r.inWorld
           /\ produced' = [produced EXCEPT ![t] = @ + Len(r.queue) - Len(queue)]
    /\ tasks' = [tasks EXCEPT ![t].st = "done"]
    /\ completed' = Append(completed, t)
    /\ UNCHANGED <<role, platform, app, move, phase, storage, matdeps, strong, released, nextObj,
                   connected, net, localq, nextTask, running, audio, desc, window,
                   logged, player, hostVars, ran, last, panicked>>

\* The network session comes and goes outside the bridge.
Connect ==
    /\ ~panicked
    /\ role = "Presentational"
    /\ guard = {}
    /\ connected' = ~connected
    /\ UNCHANGED <<role, platform, app, move, phase, guard, storage, matdeps, strong, released,
                   nextObj, net, localq, tasks, nextTask, queue, running,
                   audio, desc, window, logged, player, hostVars, completed, ran,
                   produced, last, panicked>>

\* The local player's entity appears and disappears outside the bridge.
PlayerChange ==
    /\ ~panicked
    /\ role = "Presentational"
    /\ guard = {}
    /\ player' = ~player
    /\ UNCHANGED <<role, platform, app, move, phase, guard, storage, matdeps, strong,
                   released, nextObj, connected, net, localq, tasks, nextTask,
                   queue, running, audio, desc, window, logged, hostVars, completed,
                   ran, produced, last, panicked>>

\* A module is unloaded between calls: it issues no further calls; the
\* operations it started keep running on the pool.
Unload(m) ==
    /\ ~panicked
    /\ guard = {}
    /\ m \in loaded
    /\ loaded' = loaded \ {m}
    /\ UNCHANGED <<role, platform, app, move, phase, guard, worldVars, delivered, running,
                   completed, ran, produced, last, panicked>>

\* Modules a local message reaches: every loaded module but the sender for
\* a broadcast (target 0), the named module if it is loaded otherwise.
LocalRecipients(ld, msg) ==
    IF msg.target = 0 THEN ld \ {msg.source} ELSE ld \cap {msg.target}

\* The next local dispatch opportunity: the oldest local message goes to
\* its recipients.
LocalDispatch ==
    /\ ~panicked
    /\ guard = {}
    /\ localq /= <<>>
    /\ delivered' = Append(delivered, [msg |-> Head(localq),
                                       to |-> LocalRecipients(loaded, Head(localq))])
    /\ localq' = Tail(localq)
    /\ UNCHANGED <<role, platform, app, move, phase, guard, storage, matdeps, strong,
                   released, nextObj, connected, net, tasks, nextTask, queue,
                   running, audio, desc, window, logged, player, loaded, completed,
                   ran, produced, last, panicked>>

-----------------------------------------------------------------------------
(* The launcher: app/src/main.rs *)

\* Everything but the launcher and the movement module.
bridgeVars == <<role, phase, guard, storage, matdeps, strong, released, nextObj,
                connected, net, localq, tasks, nextTask, queue, running, audio,
                completed, ran, produced, last, panicked, window, logged,
                player, loaded, delivered, platform, desc>>

\* Cli::New, Cli::Build and Cli::Join are told apart by main; the other
\* commands take the same path through it.
Commands == {"New", "Build", "Join", "Run", "Serve"}

\* What the project path given on the command line can be.
PathKinds == {"none", "remote", "remote_bad", "dir", "file", "missing"}

\* A host is a string, here a sequence of tokens; <<>> stands for no host.
NoHost == <<>>

Hosts == {NoHost, <<"example.org">>, <<"example.org", ":", "4433">>}

\* Ports server::start can report.
Ports == {"QUIC_INTERFACE_PORT", "9001"}

Contains(str, tok) == \E i \in 1..Len(str) : str[i] = tok

\* A Join host used as given, without the default port.
JoinHostNoPort(host) == host

\* if !host.contains(':') { host = format!("{host}:{QUIC_INTERFACE_PORT}") }
JoinHost(host) ==
    IF ~Contains(host, ":") THEN host \o <<":", "QUIC_INTERFACE_PORT">> ELSE host

\* format!("127.0.0.1:{port}").parse()?
Loopback(port) == [ip |-> <<"127.0.0.1", ":", port>>]

\* The first address lookup_host yields for the host.
Resolved(host) == [ip |-> <<"lookup">> \o host]

Args ==
    [cmd : Commands, project : BOOLEAN, path : PathKinds, no_build : BOOLEAN,
     run : BOOLEAN, host : Hosts]

\* No launcher is running.
AppIdle == [pc |-> "idle"]

AppStarted(args) ==
    [pc |-> "start", args |-> args, fs |-> FALSE, manifest |-> FALSE,
     metadata |-> FALSE, addr |-> Loopback("unset"), stages |-> <<>>,
     exit |-> "running"]

Running(pc) == app.pc = pc /\ app.exit = "running"

Stage(a, name, arg) == [a EXCEPT !.stages = Append(@, [stage |-> name, arg |-> arg])]

Exit(a, how) == [a EXCEPT !.exit = how]

StageNames(a) == {a.stages[i].stage : i \in 1..Len(a.stages)}

AppStep(a) == app' = a /\ UNCHANGED <<bridgeVars, move>>

\* setup_logging()?, components::init()?, the runtime and the asset cache.
AppSetup(outcome) ==
    /\ Running("start")
    /\ outcome \in {"Ok", "Err"}
    /\ AppStep(IF outcome = "Err" THEN Exit(app, "Err")
               ELSE [app EXCEPT !.pc = "path"])

\* let project_path = cli.project().and_then(|p| p.path.clone())
ProjectPath(args) == IF args.project THEN args.path ELSE "none"

\* let (project_fs_path, project_path) = match project_path { .. }
AppResolvePath ==
    /\ Running("path")
    /\ LET pp == ProjectPath(app.args)
       IN  AppStep(CASE pp \in {"remote_bad", "file"} -> Exit(app, "Err")
                     [] pp = "remote" -> [app EXCEPT !.pc = "new", !.fs = FALSE]
                     [] OTHER -> [app EXCEPT !.pc = "new", !.fs = TRUE])

\* A New that goes on to the manifest after the creation attempt.
AppNewFallsThrough(outcome) ==
    /\ Running("new")
    /\ outcome \in {"Ok", "Err"}
    /\ AppStep(IF app.args.cmd = "New" /\ app.fs
               THEN [Stage(app, "new_project", outcome) EXCEPT !.pc = "manifest"]
               ELSE [app EXCEPT !.pc = "manifest"])

\* if let Cli::New { name, .. } = &cli { .. return Ok(()); }
AppNew(outcome) ==
    /\ Running("new")
    /\ outcome \in {"Ok", "Err"}
    /\ AppStep(IF app.args.cmd = "New"
               THEN IF app.fs
                    THEN Exit(Stage(app, "new_project", outcome), "Ok")
                    ELSE Exit(app, "Ok")
               ELSE [app EXCEPT !.pc = "manifest"])

\* let manifest = cli.project().map(|_| { .. }).transpose()?
AppManifest(outcome) ==
    /\ Running("manifest")
    /\ outcome \in {"Ok", "Err"}
    /\ AppStep(IF ~app.args.project
               THEN [app EXCEPT !.pc = "metadata"]
               ELSE LET a == Stage(app, IF app.fs THEN "manifest_file"
                                        ELSE "manifest_download", outcome)
                    IN  IF outcome = "Err" THEN Exit(a, "Err")
                        ELSE [a EXCEPT !.pc = "metadata", !.manifest = TRUE])

\* let metadata = if let Some(manifest) = manifest.as_ref() { .. } else { None }
AppMetadata(outcome) ==
    /\ Running("metadata")
    /\ outcome \in {"Ok", "Err"}
    /\ AppStep(IF ~app.manifest
               THEN [app EXCEPT !.pc = "build_exit"]
               ELSE IF ~app.args.no_build /\ app.fs
               THEN [Stage(app, "build", "Ok") EXCEPT !.pc = "build_exit",
                                                      !.metadata = TRUE]
               ELSE LET a == Stage(app, "metadata_download", outcome)
                    IN  IF outcome = "Err" THEN Exit(a, "Err")
                        ELSE [a EXCEPT !.pc = "build_exit", !.metadata = TRUE])

\* if matches!(&cli, Cli::Build { .. }) { return Ok(()); }
AppBuildExit ==
    /\ Running("build_exit")
    /\ AppStep(IF app.args.cmd = "Build" THEN Exit(app, "Ok")
               ELSE [app EXCEPT !.pc = "addr"])

\* let server_addr = if let Cli::Join { host, .. } = &cli { .. } else { .. }
AppServerAddr(lookup, port) ==
    /\ Running("addr")
    /\ lookup \in {"Found", "NoAddress", "Err"}
    /\ port \in Ports
    /\ AppStep(IF app.args.cmd = "Join"
               THEN IF app.args.host /= NoHost
                    THEN LET h == JoinHost(app.args.host)
                             a == Stage(app, "lookup", h)
                         IN  IF lookup = "Found"
                             THEN [a EXCEPT !.pc = "join", !.addr = Resolved(h)]
                             ELSE Exit(a, "Err")
                    ELSE [app EXCEPT !.pc = "join",
                                     !.addr = Loopback("QUIC_INTERFACE_PORT")]
               ELSE IF ~app.manifest \/ ~app.metadata
                    THEN Exit(app, "Panic")
                    ELSE [Stage(app, "server", port) EXCEPT
                              !.pc = "join", !.addr = Loopback(port)])

\* if let Some(run) = cli.run() { client::run(..) } else { ctrl_c().await }
AppJoin ==
    /\ Running("join")
    /\ AppStep(Exit(IF app.args.run THEN Stage(app, "client", app.addr)
                    ELSE Stage(app, "ctrl_c", "Ok"), "Ok"))

-----------------------------------------------------------------------------
(* The character-movement module: character_movement/src/server.rs *)

MaxFrames == 2

\* Velocities are counted in tenths of the source's unit per tick of delta
\* time: FALLING_VSPEED (0.4) is 4 of them.
FALLING_VSPEED == 4

Units == {"u1", "u2"}

DeltaTimes == {1, 2}

Velocities == {0, 5}

\* The jumping component of a unit: absent, or present with its value.
Jumpings == {"absent", "true", "false"}

UnitStates == [inQuery : BOOLEAN, vv : Velocities, jumping : Jumpings]

\* No movement module is running.
MoveIdle == [frame |-> 0 - 1]

\* A frame update that marks every landed unit as not jumping.
UnitUpdateAlwaysAddsJumping(unit, down, dt) ==
    IF down
    THEN [unit EXCEPT !.jumping = "false", !.vv = 0]
    ELSE [unit EXCEPT !.vv = @ - FALLING_VSPEED * dt]

\* Body of the loop over the queried units, after move_character returned.
UnitUpdate(unit, down, dt) ==
    IF down
    THEN [unit EXCEPT !.jumping = IF @ = "true" THEN "false" ELSE @, !.vv = 0]
    ELSE [unit EXCEPT !.vv = @ - FALLING_VSPEED * dt]

\* query((run_direction(), rotation(), vertical_velocity(), running()))
\*     .each_frame(move |list| { for (unit_id, ..) in list { .. } })
EachFrame(down, dt) ==
    /\ move /= MoveIdle
    /\ move.frame < MaxFrames
    /\ move' = [frame |-> move.frame + 1,
                prev |-> move.units,
                down |-> down,
                dt |-> dt,
                units |-> [u \in Units |->
                              IF move.units[u].inQuery
                              THEN UnitUpdate(move.units[u], down[u], dt)
                              ELSE move.units[u]]]
    /\ UNCHANGED <<bridgeVars, app>>

-----------------------------------------------------------------------------
(* Specifications *)

InitWorld ==
    /\ phase = "drain"
    /\ guard = {}
    /\ storage = EmptyStorage
    /\ matdeps = [o \in ObjIds |-> <<>>]
    /\ strong = [o \in ObjIds |-> 0]
    /\ released = [o \in ObjIds |-> 0]
    /\ nextObj = 1
    /\ connected = FALSE
    /\ net = <<>>
    /\ localq = <<>>
    /\ tasks = [t \in TaskIds |-> NoTask]
    /\ nextTask = 1
    /\ queue = <<>>
    /\ running = NoCb
    /\ audio = <<>>
    /\ completed = <<>>
    /\ ran = <<>>
    /\ produced = [t \in TaskIds |-> 0]
    /\ last = NoLast
    /\ panicked = FALSE
    /\ window = <<>>
    /\ logged = <<>>
    /\ player = FALSE
    /\ loaded = Modules
    /\ delivered = <<>>
    /\ desc = [o \in ObjIds |-> NoDesc]

\* The launcher and the movement module are not part of the bridge: they
\* stay as they are while the bridge runs.
InitBridge == platform = "linux" /\ app = AppIdle /\ move = MoveIdle /\ InitWorld

Init == role \in Roles /\ InitBridge

InitClient == role = "Presentational" /\ InitBridge

\* The registry capabilities, with every handle the guest could pass.
RegistryCall(m) ==
    \/ \E v \in BOOLEAN : CallEnd(m, MeshCreateCall(v))
    \/ CallEnd(m, BaseCall("client_texture.create2d"))
    \/ CallEnd(m, BaseCall("client_sampler.create"))
    \/ \E op \in DestroyOps : \E h \in GuestHandles(storage) :
          CallEnd(m, DestroyCall(op, h))
    \/ \E b \in GuestHandles(storage) : \E n \in GuestHandles(storage) :
       \E mr \in GuestHandles(storage) : \E sm \in GuestHandles(storage) :
          CallEnd(m, MaterialCreateCall(b, n, mr, sm))

SendAny(m) ==
    \E t \in Targets : \E x \in (IF t = "Local" THEN Dests ELSE {0}) :
    \E n \in Names : \E d \in Payloads :
        CallEnd(m, SendCall(t, x, n, d))

AudioCall(m) ==
    \/ \E v \in BOOLEAN : \E u \in Urls : \E i \in Uids :
          CallEnd(m, UrlCall("client_audio.play", v, u, i))
    \/ \E op \in {"client_audio.stop", "client_audio.set_volume"} :
       \E v \in BOOLEAN : \E u \in Urls :
          CallEnd(m, UrlCall(op, v, u, 0))
    \/ \E i \in Uids : CallEnd(m, StopByIdCall(i))

InputCall(m) ==
    \E op \in {"client_input.get", "client_input.get_previous"} :
        CallEnd(m, BaseCall(op))

\* Server-only capabilities, reachable from a presentational guest.
ServerOnlyCall(m) ==
    \E e \in Entities : CallEnd(m, EntityCall("physics.move_character", e))

\* Client capabilities, reachable from an authoritative guest.
ServerTableCall(m) ==
    \/ SendAny(m)
    \/ \E op \in {"client_player.get_local", "client_input.get",
                  "client_input.get_previous"} : CallEnd(m, BaseCall(op))
    \/ \E e \in Entities : CallEnd(m, EntityCall("camera.screen_ray", e))

\* The player, cursor, camera and window capabilities.
WindowCall(m) ==
    \/ CallEnd(m, BaseCall("client_player.get_local"))
    \/ \E i \in CursorIcons :
          CallEnd(m, [BaseCall("client_input.set_cursor") EXCEPT !.name = i])
    \/ \E op \in WindowOps \ {"client_input.set_cursor"} : \E v \in BOOLEAN :
          CallEnd(m, [BaseCall(op) EXCEPT !.valid = v])
    \/ \E op \in CameraOps : \E e \in Entities : CallEnd(m, EntityCall(op, e))
    \/ \E v \in BOOLEAN : \E u \in Urls :
          CallEnd(m, UrlCall("client_audio.load", v, u, 0))

InCall(m) == ~panicked /\ <<"call", m>> \in guard

Next ==
    \/ StepBegin
    \/ CallbackBegin
    \/ CallbackEnd
    \/ DrainEnd
    \/ \E m \in Modules : CallBegin(m)
    \/ \E m \in Modules : InCall(m) /\ role = "Authoritative" /\ ServerTableCall(m)
    \/ \E m \in Modules : InCall(m) /\ role = "Presentational" /\ RegistryCall(m)
    \/ \E m \in Modules : InCall(m) /\ role = "Presentational" /\ SendAny(m)
    \/ \E m \in Modules : InCall(m) /\ role = "Presentational" /\ AudioCall(m)
    \/ \E m \in Modules : InCall(m) /\ role = "Presentational" /\ InputCall(m)
    \/ \E m \in Modules : InCall(m) /\ role = "Presentational" /\ ServerOnlyCall(m)
    \/ \E m \in Modules : InCall(m) /\ role = "Presentational" /\ WindowCall(m)
    \/ PlayerChange
    \/ \E m \in Modules : Unload(m)
    \/ LocalDispatch
    \/ \E t \in TaskIds : \E o \in {"Ok", "Err"} : TaskFinish(t, o)
    \/ Connect

Spec == Init /\ [][Next]_vars

\* The registry capabilities alone, on the presentational role.
NextRegistry ==
    \/ StepBegin
    \/ DrainEnd
    \/ \E m \in Modules : CallBegin(m)
    \/ \E m \in Modules : InCall(m) /\ RegistryCall(m)

SpecRegistry == InitClient /\ [][NextRegistry]_vars

\* The audio capability and the deferred execution bridge.
NextAsync ==
    \/ StepBegin
    \/ CallbackBegin
    \/ CallbackEnd
    \/ DrainEnd
    \/ \E m \in Modules : CallBegin(m)
    \/ \E m \in Modules : InCall(m) /\ AudioCall(m)
    \/ \E m \in Modules : InCall(m) /\ InputCall(m)
    \/ \E t \in TaskIds : \E o \in {"Ok", "Err"} : TaskFinish(t, o)

SpecAsync == InitClient /\ [][NextAsync]_vars

\* The deferred execution bridge with modules being unloaded while their
\* operations are pending.
NextUnload ==
    \/ StepBegin
    \/ CallbackBegin
    \/ CallbackEnd
    \/ DrainEnd
    \/ \E m \in Modules : CallBegin(m)
    \/ \E m \in Modules : InCall(m) /\ AudioCall(m)
    \/ \E t \in TaskIds : \E o \in {"Ok", "Err"} : TaskFinish(t, o)
    \/ \E m \in Modules : Unload(m)

SpecUnload == InitClient /\ [][NextUnload]_vars

\* The message channel on both roles: sends to every target, the session
\* coming and going, local dispatch, and modules being unloaded.
NextChannel ==
    \/ StepBegin
    \/ DrainEnd
    \/ \E m \in Modules : CallBegin(m)
    \/ \E m \in Modules : InCall(m) /\ SendAny(m)
    \/ Connect
    \/ LocalDispatch
    \/ \E m \in Modules : Unload(m)

SpecChannel == Init /\ [][NextChannel]_vars

\* Calls that can fail, next to calls that fill the registry and the queues.
FailingWorkload(m) ==
    \/ \E v \in BOOLEAN : CallEnd(m, MeshCreateCall(v))
    \/ CallEnd(m, BaseCall("client_texture.create2d"))
    \/ \E h \in GuestHandles(storage) : CallEnd(m, MaterialCreateCall(h, h, h, h))
    \/ \E t \in {"ServerReliable", "LocalBroadcast"} : \E d \in Payloads :
          CallEnd(m, SendCall(t, 0, "bonk", d))
    \/ \E v \in BOOLEAN : \E u \in Urls : \E i \in Uids :
          CallEnd(m, UrlCall("client_audio.play", v, u, i))
    \/ \E op \in CameraOps : \E e \in Entities : CallEnd(m, EntityCall(op, e))
    \/ ServerOnlyCall(m)

NextFailures ==
    \/ StepBegin
    \/ DrainEnd
    \/ \E m \in Modules : CallBegin(m)
    \/ \E m \in Modules : InCall(m) /\ FailingWorkload(m)
    \/ Connect

SpecFailures == InitClient /\ [][NextFailures]_vars

\* Both roles: every call the authoritative table declares, and on the
\* presentational role the server-only capability next to calls that fill
\* the registry, the message queues and the callback queue.
DispatchWorkload(m) ==
    \/ ServerOnlyCall(m)
    \/ \E t \in {"ServerReliable", "LocalBroadcast"} : CallEnd(m, SendCall(t, 0, "bonk", 1))
    \/ CallEnd(m, BaseCall("client_texture.create2d"))
    \/ \E i \in Uids : CallEnd(m, StopByIdCall(i))

NextDispatch ==
    \/ StepBegin
    \/ CallbackBegin
    \/ CallbackEnd
    \/ DrainEnd
    \/ \E m \in Modules : CallBegin(m)
    \/ \E m \in Modules : InCall(m) /\ role = "Authoritative" /\ ServerTableCall(m)
    \/ \E m \in Modules : InCall(m) /\ role = "Presentational" /\ DispatchWorkload(m)
    \/ \E t \in TaskIds : \E o \in {"Ok", "Err"} : TaskFinish(t, o)
    \/ Connect

SpecDispatch == Init /\ [][NextDispatch]_vars

InitLauncher ==
    /\ role = "Presentational"
    /\ platform = "linux"
    /\ InitWorld
    /\ move = MoveIdle
    /\ \E args \in Args : app = AppStarted(args)

NextLauncher ==
    \/ \E o \in {"Ok", "Err"} : AppSetup(o)
    \/ AppResolvePath
    \/ \E o \in {"Ok", "Err"} : AppNew(o)
    \/ \E o \in {"Ok", "Err"} : AppManifest(o)
    \/ \E o \in {"Ok", "Err"} : AppMetadata(o)
    \/ AppBuildExit
    \/ \E l \in {"Found", "NoAddress", "Err"} : \E p \in Ports : AppServerAddr(l, p)
    \/ AppJoin

SpecLauncher == InitLauncher /\ [][NextLauncher]_vars

InitMovement ==
    /\ role = "Authoritative"
    /\ platform = "linux"
    /\ InitWorld
    /\ app = AppIdle
    /\ \E us \in [Units -> UnitStates] :
          move = [frame |-> 0, prev |-> us, down |-> [u \in Units |-> FALSE],
                  dt |-> 1, units |-> us]

NextMovement ==
    \E down \in [Units -> BOOLEAN] : \E dt \in DeltaTimes : EachFrame(down, dt)

SpecMovement == InitMovement /\ [][NextMovement]_vars

\* The player, cursor, camera and window capabilities on every platform.
InitWindow ==
    /\ role = "Presentational"
    /\ platform \in Platforms
    /\ app = AppIdle
    /\ move = MoveIdle
    /\ InitWorld

NextWindow ==
    \/ StepBegin
    \/ DrainEnd
    \/ \E m \in Modules : CallBegin(m)
    \/ \E m \in Modules : InCall(m) /\ WindowCall(m)
    \/ PlayerChange

SpecWindow == InitWindow /\ [][NextWindow]_vars

\* The first create in an empty registry, with every descriptor value.
FormatCall(m) ==
    \/ \E f \in WitFormats : CallEnd(m, TextureCall(f))
    \/ \E a \in [1..3 -> AddressModes] : \E f \in [1..3 -> FilterModes] :
          CallEnd(m, SamplerCall(a, f))

NextFormats ==
    \/ StepBegin
    \/ DrainEnd
    \/ \E m \in Modules : CallBegin(m)
    \/ \E m \in Modules : InCall(m) /\ nextObj = 1 /\ FormatCall(m)

SpecFormats == InitClient /\ [][NextFormats]_vars

-----------------------------------------------------------------------------
(* Properties *)

\* C1: a call to an operation the role's table does not implement returns
\* Unsupported, whatever its arguments and whatever the world holds.
C1_UnimplementedIsUnsupported ==
    (last /= NoLast /\ last.call.op \notin Implemented(role))
        => last.res = "Unsupported"

\* An authoritative guest's local-directed send has just been refused.
C1_Witness ==
    /\ role = "Authoritative"
    /\ last.call.op = "client_message.send"
    /\ last.call.target = "Local"
    /\ last.call.dest = 2
    /\ last.res = "Unsupported"

\* This step is the return of a guest call (last' describes it).
CallReturns == \E m \in Modules : <<"call", m>> \in guard /\ <<"call", m>> \notin guard'

\* h was returned by a create call and has been destroyed since.
WasDestroyed(st, h) == h \in Issued(st) /\ ~IsLive(st, h)

\* The kind of arena each of the four material dependencies is looked up in.
DepKind(i) == IF i = 4 THEN "Sampler" ELSE "Texture"

BadDep(st, c) == \E i \in 1..4 : StorageGet(st, DepKind(i), c.deps[i]) = Vacant

\* Number of owners of object o: the registry slot holding it and every
\* field of a registered material that refers to it.
Holders(o) ==
    (IF InStorage(storage, o) THEN 1 ELSE 0)
    + Cardinality({p \in ObjIds \X (1..4) :
                      /\ InStorage(storage, p[1])
                      /\ Len(matdeps[p[1]]) = 4
                      /\ matdeps[p[1]][p[2]] = o})

\* C2: a call that returns Unsupported changes nothing a handler can reach:
\* registry, objects, connection, network sends, local messages, spawned
\* operations, callback queue and audio messages are as before the call.
C2_UnsupportedChangesNothing ==
    [][(CallReturns /\ last'.res = "Unsupported") => worldVars' = worldVars]_vars

\* A presentational guest's move_character has just been refused while the
\* registry, both message queues and the callback queue hold something.
C2_Witness ==
    /\ role = "Presentational"
    /\ last.call.op = "physics.move_character"
    /\ last.res = "Unsupported"
    /\ nextObj > 1
    /\ net /= <<>>
    /\ localq /= <<>>
    /\ queue /= <<>>

\* C3: at most one unit of work is inside the world at any time, and a
\* running callback is that unit.
C3_WorldAccessExclusive ==
    /\ Cardinality(guard) <= 1
    /\ running /= NoCb => guard = {<<"cb", running.task>>}
    /\ running = NoCb => \A u \in guard : u[1] = "call"

\* A guest call is inside the world while a finished operation's callback
\* waits in the queue.
C3_Witness == \E m \in Modules : guard = {<<"call", m>>} /\ queue /= <<>>

\* C4: after destroy(h), every later call that references h (another destroy
\* of h, or a material create naming h as a dependency) returns NotFound.
C4_DestroyedHandleNotFound ==
    [][(/\ CallReturns
        /\ \/ /\ last'.call.op \in DestroyOps
              /\ WasDestroyed(storage, last'.call.h)
           \/ /\ last'.call.op = "client_material.create"
              /\ \E i \in 1..4 : WasDestroyed(storage, last'.call.deps[i]))
       => last'.res = "NotFound"]_vars

\* C5: a handle that no longer resolves never resolves again, in any arena:
\* a resource created later, even in the same slot, is not reachable through
\* a destroyed handle.
C5_StaleHandleNeverResolves ==
    [][\A h \in Issued(storage) : \A k \in Kinds :
          StorageGet(storage, h.kind, h) = Vacant =>
              StorageGet(storage', k, h) = Vacant]_vars

\* A destroyed texture handle whose slot holds a texture created later.
C5_Witness ==
    \E h \in Issued(storage) :
        /\ h.kind = "Texture"
        /\ ~IsLive(storage, h)
        /\ storage["Texture"][h.idx].obj /= Vacant
        /\ storage["Texture"][h.idx].gen > h.gen

\* C6: destroying a material vacates at most the material's own slot; the
\* texture, sampler and mesh arenas are as before and no object other than
\* that material is dropped.
C6_MaterialDestroyOnlyOwnSlot ==
    [][(CallReturns /\ last'.call.op = "client_material.destroy")
       => /\ \A k \in Kinds \ {"Material"} : storage'[k] = storage[k]
          /\ \A i \in Slots :
                storage'["Material"][i] /= storage["Material"][i]
                    => last'.call.h = Handle("Material", i, storage["Material"][i].gen)
          /\ \A o \in ObjIds :
                InStorage(storage', o) => released'[o] = 0]_vars

\* A material has just been destroyed; the texture and the sampler it was
\* built from are still registered, alive, and accepted by a material create.
C6_Witness ==
    /\ last.call.op = "client_material.destroy"
    /\ last.res = "Ok"
    /\ WasDestroyed(storage, last.call.h)
    /\ \E t \in Issued(storage) : \E sm \in Issued(storage) :
          /\ StorageGet(storage, "Texture", t) /= Vacant
          /\ StorageGet(storage, "Sampler", sm) /= Vacant
          /\ released[StorageGet(storage, "Texture", t)] = 0
          /\ released[StorageGet(storage, "Sampler", sm)] = 0
          /\ MaterialCreate(World, MaterialCreateCall(t, t, t, sm)).res = "Ok"

\* C7: an object is dropped exactly once, and exactly when its last owner
\* (registry slot or material) has gone.
C7_ReleasedExactlyOnceByLastHolder ==
    \A o \in ObjIds :
        /\ released[o] <= 1
        /\ o < nextObj => (released[o] = 1 <=> Holders(o) = 0)
        /\ o >= nextObj => released[o] = 0

\* A texture, a sampler and a material built from them; the two handles were
\* destroyed first and the material's destroy has just released all three.
C7_Witness ==
    /\ last.call.op = "client_material.destroy"
    /\ nextObj = 4
    /\ \A o \in 1..3 : released[o] = 1
    /\ \A k \in Kinds : \A i \in Slots : storage[k][i].obj = Vacant

\* C8: a material create with an invalid dependency returns NotFound and
\* leaves the registry as it was.
C8_BadDependencyNotFound ==
    [][(/\ CallReturns
        /\ last'.call.op = "client_material.create"
        /\ BadDep(storage, last'.call))
       => last'.res = "NotFound" /\ storage' = storage]_vars

\* C9: a spawned operation has handed over exactly one callback once it has
\* finished, and none before.
C9_ExactlyOneCallback ==
    \A t \in TaskIds :
        /\ tasks[t].st = "done" => produced[t] = 1
        /\ tasks[t].st /= "done" => produced[t] = 0

\* A play whose download failed has its one callback in the queue.
C9_Witness ==
    \E i \in 1..Len(queue) :
        /\ queue[i].kind = "play"
        /\ queue[i].outcome = "Err"
        /\ produced[queue[i].task] = 1

\* C10: a callback runs only during the drain that opens a step, with no
\* guest call inside the world, alone, and callbacks start in the order in
\* which their operations completed.
C10_DrainAtSyncPointFifo ==
    /\ running /= NoCb => phase = "drain" /\ guard = {<<"cb", running.task>>}
    /\ Len(ran) <= Len(completed)
    /\ \A i \in 1..Len(ran) : ran[i] = completed[i]

\* Two callbacks have run, the later-issued operation's first because it
\* completed first.
C10_Witness == Len(ran) = 2 /\ ran[1] = 2 /\ ran[2] = 1

\* Position of x in seq, 0 when it does not occur.
IndexOf(seq, x) ==
    IF \E i \in 1..Len(seq) : seq[i] = x
    THEN CHOOSE i \in 1..Len(seq) : seq[i] = x /\ \A j \in 1..(i - 1) : seq[j] /= x
    ELSE 0

\* This step is the end of a deferred callback.
CallbackReturns == running /= NoCb /\ running' = NoCb

\* What handlers and callbacks, and nobody else, may change.
guardedVars == <<storage, matdeps, strong, released, nextObj, net, nextTask,
                 audio, window, logged>>

\* C11: callbacks of different operations run in the order in which the
\* operations completed, whatever the order in which they were issued (so
\* the later-issued one runs first when it completes first), and no
\* operation's callback is run out of turn or twice.
C11_CallbackOrderFollowsCompletion ==
    \A i \in 1..Len(ran) : \A j \in 1..Len(ran) :
        i < j => /\ ran[i] /= ran[j]
                 /\ IndexOf(completed, ran[i]) > 0
                 /\ IndexOf(completed, ran[i]) < IndexOf(completed, ran[j])

\* A play was issued first and a stop_by_id second; the stop completed
\* first and its message reached the audio sender before the track.
C11_Witness ==
    /\ tasks[1].kind = "play"
    /\ tasks[2].kind = "stop_by_id"
    /\ running = NoCb
    /\ Len(audio) = 2
    /\ audio[1].msg = "StopById"
    /\ audio[2].msg = "Track"

\* C12: an audio call that is accepted returns with the operation still
\* running and nothing sent to the audio sender; audio messages are sent
\* only by a deferred callback.
C12_AcceptedNotCompleted ==
    [][/\ (CallReturns /\ last'.call.op \in AudioOps /\ last'.res = "Ok")
            => /\ audio' = audio
               /\ queue' = queue
               /\ nextTask' = nextTask + 1
               /\ tasks'[nextTask].st = "running"
               /\ produced[nextTask] = 0
       /\ audio' /= audio => CallbackReturns]_vars

\* A play has just returned Ok: its download is still running, no callback
\* is queued and the audio sender has received nothing.
C12_Witness ==
    /\ last.call.op = "client_audio.play"
    /\ last.res = "Ok"
    /\ nextTask = 2
    /\ tasks[1].st = "running"
    /\ queue = <<>>
    /\ audio = <<>>

\* C13: a completing operation changes nothing but its own status and the
\* callback queue, and takes no world access; registry, messages, audio and
\* window change only while a guest call or a callback holds the world.
C13_TaskNeverTouchesWorld ==
    [][/\ completed' /= completed
            => /\ guardedVars' = guardedVars
               /\ <<connected, localq, player>>' = <<connected, localq, player>>
               /\ guard' = guard
               /\ Len(queue') = Len(queue) + 1
               /\ SubSeq(queue', 1, Len(queue)) = queue
       /\ guardedVars' /= guardedVars
            => \E u \in guard : u[1] \in {"call", "cb"} /\ u \notin guard']_vars

\* An operation completed while a guest call was inside the world: its
\* callback waits and nothing has reached the audio sender.
C13_Witness ==
    /\ \E m \in Modules : guard = {<<"call", m>>}
    /\ Len(completed) = 1
    /\ ran = <<>>
    /\ Len(queue) = 1
    /\ audio = <<>>

\* C14: a play with a well-formed url returns Ok whatever the download will
\* report; the callback of a failed download logs the failure and changes
\* nothing else: no message reaches the audio sender.
C14_FailureOnlyOnCallbackPath ==
    [][/\ (CallReturns /\ last'.call.op = "client_audio.play" /\ last'.call.valid)
            => last'.res = "Ok"
       /\ (CallbackReturns /\ running.outcome = "Err")
            => /\ logged' = Append(logged, running.task)
               /\ <<storage, matdeps, strong, released, nextObj, connected, net,
                     localq, tasks, nextTask, queue, audio, window, player>>'
                  = <<storage, matdeps, strong, released, nextObj, connected, net,
                      localq, tasks, nextTask, queue, audio, window, player>>]_vars

\* The callback of a play whose download failed has run: the failure is
\* logged and the audio sender has received nothing.
C14_Witness ==
    /\ tasks[1].kind = "play"
    /\ ran = <<1>>
    /\ running = NoCb
    /\ logged = <<1>>
    /\ audio = <<>>

\* C15: the callback of an operation whose module has been unloaded changes
\* nothing outside that module: audio sender, window, registry and message
\* queues are as before it ran.
C15_UnloadedCallbackIsNoOp ==
    [][(CallbackReturns /\ tasks[running.task].m \notin loaded)
          => <<storage, matdeps, strong, released, nextObj, connected, net,
               localq, tasks, nextTask, queue, audio, window, player>>'
             = <<storage, matdeps, strong, released, nextObj, connected, net,
                 localq, tasks, nextTask, queue, audio, window, player>>]_vars

ServerTargets == {"ServerUnreliable", "ServerReliable"}

\* The request the network collaborator sees for the call that returns.
SentRequest(m, c) ==
    [reliable |-> c.target = "ServerReliable", module |-> m,
     name |-> c.name, data |-> c.data]

\* This step is the return of a send with one of the given targets.
SendReturns(ts) ==
    /\ CallReturns
    /\ last'.call.op = "client_message.send"
    /\ last'.call.target \in ts

\* C16 as stated: a reliable send by a module of the authoritative role
\* returns success and puts exactly one reliable request, with the module's
\* id, the name and the payload, behind the requests already observed.
C16_AuthoritativeReliableSendSucceeds ==
    [][(SendReturns({"ServerReliable"}) /\ role = "Authoritative")
          => /\ last'.res = "Ok"
             /\ net' = Append(net, SentRequest(last'.m, last'.call))]_vars

\* C16, for the role that serves send: a reliable send by a module of the
\* presentational role with a game client returns success and puts exactly
\* one reliable request, with the module's id, the name and the payload,
\* behind the requests already observed; observed requests never change.
C16_ReliableSendObservedOnceInOrder ==
    [][/\ (SendReturns({"ServerReliable"}) /\ role = "Presentational" /\ connected)
            => /\ last'.res = "Ok"
               /\ net' = Append(net, SentRequest(last'.m, last'.call))
               /\ net'[Len(net')].reliable
       /\ Len(net') >= Len(net)
       /\ SubSeq(net', 1, Len(net)) = net]_vars

\* Module 1 has sent "bonk" reliably twice in a row, payload 1 then payload
\* 2, and the network collaborator holds the two requests in that order.
C16_Witness ==
    /\ role = "Presentational"
    /\ last.m = 1
    /\ last.res = "Ok"
    /\ net = <<[reliable |-> TRUE, module |-> 1, name |-> "bonk", data |-> 1],
               [reliable |-> TRUE, module |-> 1, name |-> "bonk", data |-> 2]>>

\* C17: a presentational send to the server without a game client returns
\* the missing-client error, does not unwind, and nothing is handed to the
\* network collaborator or changed anywhere else.
C17_NoClientSendFails ==
    [][(SendReturns(ServerTargets) /\ role = "Presentational" /\ ~connected)
          => /\ last'.res = "NoGameClient"
             /\ ~panicked'
             /\ net' = net
             /\ worldVars' = worldVars]_vars

\* An unreliable send has just been refused for want of a game client,
\* after an earlier one went out while the client was there.
C17_Witness ==
    /\ role = "Presentational"
    /\ ~connected
    /\ last.call.target = "ServerUnreliable"
    /\ last.res = "NoGameClient"
    /\ Len(net) = 1

\* C18: a call that does not succeed leaves everything a handler can reach
\* as it was: registry, objects, both message queues, spawned operations.
C18_FailureAppliesNothing ==
    [][(CallReturns /\ last'.res /= "Ok") => worldVars' = worldVars]_vars

\* A mesh create has just been refused for its descriptor while the
\* registry and the network queue hold something.
C18_Witness ==
    /\ last.call.op = "client_mesh.create"
    /\ last.res = "InvalidArgument"
    /\ \E h \in Issued(storage) : IsLive(storage, h)
    /\ net /= <<>>

\* C19: every operation the presentational table handles has a behaviour
\* in the table of the role the host runs.
C19_TablesExhaustive == \A op \in ClientSpecificOps : op \in TableOps(role)

C21_NoCallAbortsHost == ~panicked /\ last.res /= "Panic"

\* C22: the handle a create returns was not live before the call, names the
\* new object afterwards, and every handle that was live still names the
\* object it named: no two live resources share a handle.
C22_CreatedHandleUniqueAmongLive ==
    [][(CallReturns /\ CreateKind(last'.call.op) /= "None" /\ last'.res = "Ok")
          => LET h == last'.ret
                 k == CreateKind(last'.call.op)
             IN  /\ h.kind = k
                 /\ ~IsLive(storage, h)
                 /\ StorageGet(storage', k, h) = nextObj
                 /\ \A g \in Issued(storage) :
                       IsLive(storage, g)
                         => /\ g /= h
                            /\ StorageGet(storage', g.kind, g)
                                 = StorageGet(storage, g.kind, g)]_vars

\* A texture has just been created in a slot whose earlier texture was
\* destroyed, while the texture in the other slot is still live.
C22_Witness ==
    /\ last.call.op = "client_texture.create2d"
    /\ last.res = "Ok"
    /\ last.ret.gen > 1
    /\ \E g \in Issued(storage) :
          /\ g.kind = "Texture"
          /\ g.idx /= last.ret.idx
          /\ IsLive(storage, g)
          /\ StorageGet(storage, "Texture", g) /= StorageGet(storage, "Texture", last.ret)

\* v is the rendering collaborator's value named n.
SameName(v, n) == v = Wgpu(n)

Injective(f(_), S) == \A x \in S : \A y \in S : f(x) = f(y) => x = y

\* C23: each of the 42 pixel formats, 3 address modes and 2 filter modes
\* maps to the rendering collaborator's value of the same name, no two to
\* the same value, and the texture or sampler is built with the mapped
\* value of each field of the descriptor.
C23_EnumsMappedOneToOne ==
    [][/\ Cardinality(WitFormats) = 42
       /\ Cardinality(AddressModes) = 3
       /\ Cardinality(FilterModes) = 2
       /\ \A f \in WitFormats : SameName(TextureFormatFromWit(f), f)
       /\ \A a \in AddressModes : SameName(AddressModeFromWit(a), a)
       /\ \A f \in FilterModes : SameName(FilterModeFromWit(f), f)
       /\ Injective(TextureFormatFromWit, WitFormats)
       /\ Injective(AddressModeFromWit, AddressModes)
       /\ Injective(FilterModeFromWit, FilterModes)
       /\ (CallReturns /\ last'.call.op = "client_texture.create2d")
            => /\ last'.res = "Ok"
               /\ SameName(desc'[nextObj].format, last'.call.format)
       /\ (CallReturns /\ last'.call.op = "client_sampler.create")
            => /\ last'.res = "Ok"
               /\ \A i \in 1..3 :
                     /\ SameName(desc'[nextObj].address[i], last'.call.addr[i])
                     /\ SameName(desc'[nextObj].filter[i], last'.call.filter[i])]_vars

\* A texture has been created from a descriptor naming the sRGB format and
\* the rendering collaborator was asked for its sRGB format.
C23_Witness ==
    /\ last.call.op = "client_texture.create2d"
    /\ last.call.format = "Rgba8UnormSrgb"
    /\ last.res = "Ok"
    /\ desc[1] = [kind |-> "Texture", format |-> Wgpu("Rgba8UnormSrgb")]

\* What a send must leave alone whatever its target.
notChannelVars == <<storage, matdeps, strong, released, nextObj, connected,
                    tasks, nextTask, queue, audio, window, logged, player, desc>>

\* C24: on the presentational role a send to the server with a game client
\* makes one network request, reliable exactly for ServerReliable, and no
\* local message; a send to a local target makes one local message and no
\* network request, with or without a game client; nothing else changes.
C24_SendRoutesToOneChannel ==
    [][(SendReturns(Targets) /\ role = "Presentational")
          => /\ notChannelVars' = notChannelVars
             /\ (last'.call.target \in ServerTargets /\ connected)
                  => /\ last'.res = "Ok"
                     /\ localq' = localq
                     /\ net' = Append(net, SentRequest(last'.m, last'.call))
                     /\ net'[Len(net')].reliable
                          = (last'.call.target = "ServerReliable")
             /\ last'.call.target \notin ServerTargets
                  => /\ last'.res = "Ok"
                     /\ net' = net
                     /\ Len(localq') = Len(localq) + 1
                     /\ SubSeq(localq', 1, Len(localq)) = localq]_vars

\* A directed local send has just succeeded with no game client: the local
\* queue holds the message and the network collaborator has seen nothing.
C24_Witness ==
    /\ role = "Presentational"
    /\ ~connected
    /\ last.call.target = "Local"
    /\ last.res = "Ok"
    /\ Len(localq) = 1
    /\ net = <<>>

\* C25: every message handed to the network collaborator or to the local
\* queue carries the id of the module whose call is inside the world.
C25_OriginIsCaller ==
    [][/\ net' /= net
            => /\ Len(net') = Len(net) + 1
               /\ <<"call", net'[Len(net')].module>> \in guard
       /\ Len(localq') > Len(localq)
            => /\ Len(localq') = Len(localq) + 1
               /\ <<"call", localq'[Len(localq')].source>> \in guard]_vars

\* Module 1 has sent a message directed at module 2: the id it supplied is
\* the addressee, the origin is its own.
C25_Witness ==
    /\ last.m = 1
    /\ last.call.target = "Local"
    /\ last.call.dest = 2
    /\ last.res = "Ok"
    /\ Len(localq) = 1
    /\ localq[1].source = 1
    /\ localq[1].target = 2

\* The stop issued as t2 is for the sound whose play was issued as t1.
StopsSound(t1, t2) ==
    /\ t1 < t2
    /\ tasks[t1].kind = "play"
    /\ tasks[t1].m = tasks[t2].m
    /\ \/ tasks[t2].kind = "stop_by_id" /\ tasks[t2].uid = tasks[t1].uid
       \/ tasks[t2].kind = "stop" /\ tasks[t2].url = tasks[t1].url

\* C26: when a module plays a sound and then stops it, and the track has
\* reached the audio sender, the play's callback ran before the stop's.
C26_TrackBeforeStop ==
    \A t1 \in TaskIds : \A t2 \in TaskIds :
        (/\ StopsSound(t1, t2)
         /\ IndexOf(ran, t1) > 0
         /\ IndexOf(ran, t2) > 0
         /\ running = NoCb
         /\ \E i \in 1..Len(audio) : audio[i].msg = "Track")
            => IndexOf(ran, t1) < IndexOf(ran, t2)

\* C27: a set_cursor_lock that succeeds sends exactly one GrabCursor message:
\* None to unlock, Confined on Windows and Linux and Locked on macOS to
\* lock; a lock on any other platform fails and sends nothing.
C27_CursorLockPerPlatform ==
    [][(CallReturns /\ last'.call.op = "client_input.set_cursor_lock")
          => LET lock == last'.call.valid
                 mode == IF ~lock THEN "None"
                         ELSE IF platform \in {"windows", "linux"} THEN "Confined"
                         ELSE "Locked"
             IN  /\ (lock /\ platform \notin {"windows", "linux", "macos"})
                      => last'.res /= "Ok"
                 /\ last'.res = "Ok"
                      => window' = Append(window, [msg |-> "GrabCursor", arg |-> mode])
                 /\ last'.res /= "Ok" => window' = window]_vars

\* On a platform without cursor lock a lock request has just failed, after
\* an unlock request went through.
C27_Witness ==
    /\ platform = "other"
    /\ last.call.op = "client_input.set_cursor_lock"
    /\ last.call.valid
    /\ last.res = "UnsupportedPlatform"
    /\ window = <<[msg |-> "GrabCursor", arg |-> "None"]>>

\* C28: New ends at the project creation, whatever its outcome, having read
\* no manifest and started nothing; Build ends after the build stage,
\* having started neither a server nor a client.
C28_EarlyExitCommands ==
    /\ app.args.cmd = "New"
         => /\ StageNames(app) \subseteq {"new_project"}
            /\ app.pc \in {"start", "path", "new"}
            /\ app.exit /= "Panic"
            /\ (app.exit = "Err" => app.pc \in {"start", "path"})
            /\ (app.pc = "new" /\ app.exit /= "running")
                 => /\ app.exit = "Ok"
                    /\ "new_project" \in StageNames(app) <=> app.fs
    /\ app.args.cmd = "Build"
         => /\ StageNames(app) \cap {"server", "lookup", "client", "ctrl_c"} = {}
            /\ app.pc \notin {"addr", "join"}
            /\ app.exit /= "Panic"
            /\ (app.exit = "Ok" => app.pc = "build_exit")

\* New has returned Ok although creating the project failed; nothing else
\* was run.
C28_Witness ==
    /\ app.args.cmd = "New"
    /\ app.exit = "Ok"
    /\ app.stages = <<[stage |-> "new_project", arg |-> "Err"]>>

\* The address a Join must end up connecting to.
JoinAddr(host) ==
    IF host = NoHost THEN Loopback("QUIC_INTERFACE_PORT")
    ELSE IF Contains(host, ":") THEN Resolved(host)
    ELSE Resolved(host \o <<":", "QUIC_INTERFACE_PORT">>)

\* C29: a server is started exactly by the commands other than Join (New
\* and Build never get there); Join only resolves its address, with the
\* default port where the host has none and the loopback address where
\* there is no host; the others connect to the loopback address at the port
\* the server returned; a client runs exactly when there are run
\* parameters, otherwise the process waits for Ctrl+C.
C29_ServerUnlessJoin ==
    LET names == StageNames(app)
        n == Len(app.stages)
    IN  /\ "server" \in names => app.args.cmd \notin {"Join", "New", "Build"}
        /\ "lookup" \in names => app.args.cmd = "Join"
        /\ app.pc = "join" => ("server" \in names <=> app.args.cmd /= "Join")
        /\ "client" \in names => app.args.run
        /\ "ctrl_c" \in names => ~app.args.run
        /\ (app.pc = "join" /\ app.exit = "Ok")
             => /\ app.stages[n].stage = (IF app.args.run THEN "client" ELSE "ctrl_c")
                /\ app.args.run
                     => IF app.args.cmd = "Join"
                        THEN app.stages[n].arg = JoinAddr(app.args.host)
                        ELSE /\ n > 1
                             /\ app.stages[n - 1].stage = "server"
                             /\ app.stages[n].arg = Loopback(app.stages[n - 1].arg)

\* Join with a host that names no port has run its client against the
\* address looked up for the host with the default port.
C29_Witness ==
    /\ app.args.cmd = "Join"
    /\ app.args.host = <<"example.org">>
    /\ app.exit = "Ok"
    /\ Len(app.stages) = 2
    /\ app.stages[2].stage = "client"
    /\ app.stages[2].arg = Resolved(<<"example.org", ":", "QUIC_INTERFACE_PORT">>)

\* C30: after a frame, a queried unit that collided below has vertical
\* velocity 0 and a jumping component that is false if it was true and as
\* before otherwise (absent stays absent); one that did not collide has
\* lost FALLING_VSPEED times the delta time and kept its jumping component;
\* units outside the query are untouched.
C30_FrameUpdate ==
    move.frame > 0 =>
        \A u \in Units :
            LET b == move.prev[u]
                a == move.units[u]
            IN  IF ~b.inQuery THEN a = b
                ELSE IF move.down[u]
                THEN /\ a.vv = 0
                     /\ a.jumping /= "true"
                     /\ a.jumping = (IF b.jumping = "true" THEN "false" ELSE b.jumping)
                ELSE /\ a.vv = b.vv - FALLING_VSPEED * move.dt
                     /\ a.jumping = b.jumping

\* After a frame in which both units landed: the one that was jumping no
\* longer is, the one without a jumping component still has none.
C30_Witness ==
    /\ move.frame = 1
    /\ move.down["u1"] /\ move.down["u2"]
    /\ move.prev["u1"] = [inQuery |-> TRUE, vv |-> 5, jumping |-> "true"]
    /\ move.units["u1"] = [inQuery |-> TRUE, vv |-> 0, jumping |-> "false"]
    /\ move.prev["u2"].inQuery /\ move.prev["u2"].jumping = "absent"
    /\ move.units["u2"].jumping = "absent"

====
